---- MODULE Spec2Model ----
(***************************************************************************)
(* A model of the query filter parser (castValue, castNumberish,           *)
(* castArray, decodeValue, handleArray, parseAndOrNot, processQuery) and   *)
(* of the resource view's list operation (useAPIView).                     *)
(*                                                                         *)
(* A JavaScript string is a sequence of one-character strings.  The        *)
(* characters that occur in the inputs are those of Alphabet and of the    *)
(* sample texts; library functions (Number, BigInt, Date) are modelled on  *)
(* exactly those characters: no whitespace, no exponent, no "Infinity",    *)
(* no radix prefix and no time part of a date occurs in any input.         *)
(***************************************************************************)
EXTENDS Integers, Sequences, FiniteSets, TLC

VARIABLES
  pc,           \* "idle", "awaiting" (a query is with the store) or "done"
  op,           \* the function or operation that was called
  arg,          \* its input
  plan,         \* the query handed to the store, None when there is none
  out,          \* what the call returned or threw
  calls,        \* the calls the operation made to its collaborators, in order
  binding,      \* what construction built and the operations of a resource share
  legacyDates   \* whether the engine's fallback date parser accepts a text

vars == <<pc, op, arg, plan, out, calls, binding, legacyDates>>

-----------------------------------------------------------------------------
(* Bounds and input alphabets *)

MaxLen == 3

MaxOccur == 4

MaxRows == 3

Digits == {"0", "1", "2", "3", "4", "5", "6", "7", "8", "9"}

Alphabet == {"0", "1", ".", ",", "!", "~", "*", "@", ">", "<", "=", "-", "a"}

Texts(n) == UNION {[1..k -> Alphabet] : k \in 0..n}

Samples ==
  { <<"t","r","u","e">>, <<"T","r","u","e">>, <<"f","a","l","s","e">>,
    <<"!","f","a","l","s","e">>, <<"n","u","l","l">>, <<"N","U","L","L">>,
    <<"4","2">>, <<"1",".","5">>, <<"0","1",".","5","0">>, <<">","=","5">>,
    <<">","=","1","8">>, <<">","=","1",".","5">>, <<"<","=","1","8">>,
    <<"1",",","2",",","3">>, <<"!","1",",","2">>, <<"a",".",".","z">>,
    <<"1",".",".","2">>, <<"!","1",".",".","2">>, <<"1",".",".","a">>,
    <<"1",".","5",".",".","2">>, <<"1",".","5",",","2">>,
    <<"9","0","0","7","1","9","9","2","5","4","7","4","0","9","9","1">>,
    <<"9","0","0","7","1","9","9","2","5","4","7","4","0","9","9","2">>,
    <<"9","9","9","9","9","9","9","9","9","9","9","9","9","9","9","9","9","9","9","9">>,
    <<"n","o","t","-","a","-","n","u","m","b","e","r">>,
    <<"2","0","2","0","-","0","1","-","0","1">>,
    <<">","2","0","2","0","-","0","1","-","0","1">>,
    <<"2","0","2","0","-","1","3","-","0","1">>,
    <<"n","u","l","l",".",".","2","0","2","0","-","0","1","-","0","1">>,
    <<"n","u","l","l",",","2","0","2","0","-","0","1","-","0","1">>,
    <<"!","n","u","l","l",",","2","0","2","0","-","0","1","-","0","1">>,
    <<"t","r","u","e",".",".","f","a","l","s","e">>,
    <<"~","a","b","c">>, <<"!","~","a","b","c">>, <<"~","*","a","b","c">>,
    <<"!","~","*","a","b","c">>, <<"@",">","1",",","2">>, <<"@","1",",","2">>,
    <<"@",">","1",",","a">>, <<"!","a",",","b">>, <<"a",",","b">> }

RawValues == Texts(MaxLen) \cup Samples

-----------------------------------------------------------------------------
(* String primitives of the language runtime *)

Lower ==
  [c \in {"T", "R", "U", "E", "F", "A", "L", "S", "N"} |->
     CASE c = "T" -> "t" [] c = "R" -> "r" [] c = "U" -> "u" [] c = "E" -> "e"
       [] c = "F" -> "f" [] c = "A" -> "a" [] c = "L" -> "l" [] c = "S" -> "s"
       [] c = "N" -> "n"]

toLowerCase(s) == [i \in 1..Len(s) |-> IF s[i] \in DOMAIN Lower THEN Lower[s[i]] ELSE s[i]]

startsWith(s, prefix) ==
  /\ Len(prefix) <= Len(s)
  /\ SubSeq(s, 1, Len(prefix)) = prefix

substring(s, from) == SubSeq(s, from + 1, Len(s))

\* first index at which sep occurs in s, 0 when it does not occur
indexOf(s, sep) ==
  LET hits == {i \in 1..(Len(s) - Len(sep) + 1) : SubSeq(s, i, i + Len(sep) - 1) = sep}
  IN  IF hits = {} THEN 0 ELSE CHOOSE i \in hits : \A j \in hits : i <= j

includes(s, sep) == indexOf(s, sep) # 0

RECURSIVE split(_, _)
split(s, sep) ==
  LET i == indexOf(s, sep)
  IN  IF i = 0 THEN <<s>>
      ELSE <<SubSeq(s, 1, i - 1)>> \o split(SubSeq(s, i + Len(sep), Len(s)), sep)

AllDigits(s) == \A i \in 1..Len(s) : s[i] \in Digits

-----------------------------------------------------------------------------
(* Number(value), Number.isSafeInteger, BigInt(value), new Date(value) *)

DigitVal ==
  [c \in Digits |->
     CASE c = "0" -> 0 [] c = "1" -> 1 [] c = "2" -> 2 [] c = "3" -> 3 [] c = "4" -> 4
       [] c = "5" -> 5 [] c = "6" -> 6 [] c = "7" -> 7 [] c = "8" -> 8 [] c = "9" -> 9]

RECURSIVE stripLeadingZeros(_)
stripLeadingZeros(d) ==
  IF Len(d) > 1 /\ d[1] = "0" THEN stripLeadingZeros(Tail(d)) ELSE d

RECURSIVE stripTrailingZeros(_)
stripTrailingZeros(d) ==
  IF Len(d) > 0 /\ d[Len(d)] = "0" THEN stripTrailingZeros(SubSeq(d, 1, Len(d) - 1)) ELSE d

NaN == [nan |-> TRUE]

Finite(neg, int, frac) ==
  [nan |-> FALSE, neg |-> neg /\ ~(int = <<"0">> /\ frac = <<>>), int |-> int, frac |-> frac]

isSigned(s) == Len(s) > 0 /\ s[1] \in {"-", "+"}

unsigned(s) == IF isSigned(s) THEN Tail(s) ELSE s

\* digits, an optional "." and digits, with at least one digit in all
decimalLiteral(neg, ipart, fpart) ==
  IF AllDigits(ipart) /\ AllDigits(fpart) /\ Len(ipart) + Len(fpart) > 0
  THEN Finite(neg, stripLeadingZeros(IF ipart = <<>> THEN <<"0">> ELSE ipart),
              stripTrailingZeros(fpart))
  ELSE NaN

signedLiteral(neg, body, dot) ==
  decimalLiteral(neg,
                 IF dot = 0 THEN body ELSE SubSeq(body, 1, dot - 1),
                 IF dot = 0 THEN <<>> ELSE SubSeq(body, dot + 1, Len(body)))

\* StringToNumber on sign, digits and "."; the empty string is 0
Number(s) ==
  IF s = <<>> THEN Finite(FALSE, <<"0">>, <<>>)
  ELSE signedLiteral(isSigned(s) /\ s[1] = "-", unsigned(s), indexOf(unsigned(s), <<".">>))

isNaN(n) == n.nan

MaxSafeInteger == <<"9","0","0","7","1","9","9","2","5","4","7","4","0","9","9","1">>

RECURSIVE digitsLeq(_, _)
\* a <= b for two digit strings of equal length
digitsLeq(a, b) ==
  IF a = <<>> THEN TRUE
  ELSE IF DigitVal[a[1]] # DigitVal[b[1]] THEN DigitVal[a[1]] < DigitVal[b[1]]
  ELSE digitsLeq(Tail(a), Tail(b))

isSafeInteger(n) ==
  /\ ~n.nan
  /\ n.frac = <<>>
  /\ \/ Len(n.int) < Len(MaxSafeInteger)
     \/ Len(n.int) = Len(MaxSafeInteger) /\ digitsLeq(n.int, MaxSafeInteger)

numText(n) ==
  (IF n.neg THEN <<"-">> ELSE <<>>) \o n.int
    \o (IF n.frac = <<>> THEN <<>> ELSE <<".">> \o n.frac)

\* a double: exact unless it is an integer beyond the safe range (then it is
\* the double nearest to the digits of text)
NumberValue(n) ==
  [variant |-> "Number", text |-> numText(n), exact |-> n.frac # <<>> \/ isSafeInteger(n)]

StringValue(s) == [variant |-> "String", text |-> s, exact |-> TRUE]

BooleanValue(b) ==
  [variant |-> "Boolean",
   text |-> IF b THEN <<"t","r","u","e">> ELSE <<"f","a","l","s","e">>,
   exact |-> TRUE]

NullValue == [variant |-> "Null", text |-> <<>>, exact |-> TRUE]

BigIntegerValue(n) == [variant |-> "BigInteger", text |-> numText(n), exact |-> TRUE]

DateValue(s) == [variant |-> "Date", text |-> s, exact |-> TRUE]

Return(v) == [ok |-> TRUE, val |-> v]

Throw(e) == [ok |-> FALSE, err |-> e]

\* StringToBigInt: the empty string, or an optionally signed run of digits;
\* any other text is a SyntaxError
BigInt(s) ==
  IF s = <<>> \/ (Len(unsigned(s)) > 0 /\ AllDigits(unsigned(s)))
  THEN Return(BigIntegerValue(Number(s)))
  ELSE Throw("SyntaxError")

TwoDigitIn(s, lo, hi) ==
  /\ Len(s) = 2 /\ AllDigits(s)
  /\ DigitVal[s[1]] * 10 + DigitVal[s[2]] \in lo..hi

isoParts(parts) ==
  /\ Len(parts) \in 1..3
  /\ Len(parts[1]) = 4 /\ AllDigits(parts[1])
  /\ Len(parts) >= 2 => TwoDigitIn(parts[2], 1, 12)
  /\ Len(parts) >= 3 => TwoDigitIn(parts[3], 1, 31)

\* the date-only forms of the Date Time String Format: YYYY, YYYY-MM, YYYY-MM-DD
isIsoDate(s) == isoParts(split(s, <<"-">>))

hasDigit(s) == \E i \in 1..Len(s) : s[i] \in Digits

\* !isNaN(new Date(s).getTime()): a text in the standard format is a date;
\* any other text goes to the engine's own fallback parser, which accepts it
\* or not (legacy) when it holds a digit, and rejects it when it holds none
isValidDate(s, legacy) ==
  \/ isIsoDate(s)
  \/ hasDigit(s) /\ legacy

-----------------------------------------------------------------------------
(* The value coercer *)

\* the number branch shared by castValue and castNumberish
castNumber(value, numericValue) ==
  IF isSafeInteger(numericValue) THEN Return(NumberValue(numericValue))
  ELSE BigInt(value)

castText(value, lowerCaseValue, numericValue, legacy) ==
  IF value = <<>> THEN Return(StringValue(<<>>))
  ELSE IF lowerCaseValue = <<"t","r","u","e">> THEN Return(BooleanValue(TRUE))
  ELSE IF lowerCaseValue = <<"f","a","l","s","e">> THEN Return(BooleanValue(FALSE))
  ELSE IF lowerCaseValue = <<"n","u","l","l">> THEN Return(NullValue)
  ELSE IF ~isNaN(numericValue) THEN castNumber(value, numericValue)
  ELSE IF isValidDate(value, legacy) THEN Return(DateValue(value))
  ELSE Return(StringValue(value))

castValue(value, legacy) == castText(value, toLowerCase(value), Number(value), legacy)

castNumberishText(value, numericValue, legacy) ==
  IF ~isNaN(numericValue) THEN castNumber(value, numericValue)
  ELSE IF isValidDate(value, legacy) THEN Return(DateValue(value))
  ELSE Throw("Not a numberish value")

castNumberish(value, legacy) == castNumberishText(value, Number(value), legacy)

typeof(v) ==
  CASE v.variant = "String" -> "string"
    [] v.variant = "Number" -> "number"
    [] v.variant = "BigInteger" -> "bigint"
    [] v.variant = "Boolean" -> "boolean"
    [] v.variant = "Null" -> "object"
    [] v.variant = "Date" -> "object"

\* the outcome of a map whose callback gave r[i] for element i: the first throw,
\* or the array of the values
mapped(r) ==
  IF \E i \in 1..Len(r) : ~r[i].ok
  THEN r[CHOOSE i \in 1..Len(r) : ~r[i].ok /\ \A j \in 1..(i - 1) : r[j].ok]
  ELSE Return([i \in 1..Len(r) |-> r[i].val])

\* value.map(castValue)
mapCastValue(value, legacy) == mapped([i \in 1..Len(value) |-> castValue(value[i], legacy)])

sameTypeof(arr) == \A i \in 1..Len(arr) : typeof(arr[i]) = typeof(arr[1])

checkSameType(arr) ==
  IF ~arr.ok THEN arr
  ELSE IF sameTypeof(arr.val) THEN arr
  ELSE Throw("Not an array of the same type")

castArray(value, legacy) == checkSameType(mapCastValue(value, legacy))

-----------------------------------------------------------------------------
(* The operator decoder *)

One(v) == [list |-> FALSE, items |-> <<v>>]

Many(arr) == [list |-> TRUE, items |-> arr]

\* the object { key: operand }
Node(key, operand) == (key :> operand)

\* { key: f(...) } where evaluating the operand f(...) may throw
NodeOne(key, r) == IF r.ok THEN Return(Node(key, One(r.val))) ELSE r

NodeMany(key, r) == IF r.ok THEN Return(Node(key, Many(r.val))) ELSE r

\* the first of ">=", "<=", ">", "<" that the value starts with, <<>> if none
comparisonPrefix(value) ==
  IF startsWith(value, <<">", "=">>) THEN <<">", "=">>
  ELSE IF startsWith(value, <<"<", "=">>) THEN <<"<", "=">>
  ELSE IF startsWith(value, <<">">>) THEN <<">">>
  ELSE IF startsWith(value, <<"<">>) THEN <<"<">>
  ELSE <<>>

comparisonKey(prefix) ==
  CASE prefix = <<">", "=">> -> "$gte"
    [] prefix = <<"<", "=">> -> "$lte"
    [] prefix = <<">">> -> "$gt"
    [] prefix = <<"<">> -> "$lt"

decodeComparison(value, prefix, legacy) ==
  NodeOne(comparisonKey(prefix), castNumberish(substring(value, Len(prefix)), legacy))

\* [start, end] = the first two pieces around ".."
rangeOf(parts) == <<parts[1], parts[2]>>

decodeRange(value, legacy) ==
  NodeMany(IF startsWith(value, <<"!">>) THEN "$nbetween" ELSE "$between",
           castArray(rangeOf(split(IF startsWith(value, <<"!">>) THEN substring(value, 1)
                                   ELSE value,
                                   <<".", ".">>)),
                     legacy))

decodeSet(value, legacy) ==
  IF startsWith(value, <<"@", ">">>)
  THEN NodeMany("$contained", mapCastValue(split(substring(value, 2), <<",">>), legacy))
  ELSE IF startsWith(value, <<"@">>)
  THEN Return(Node("$contains", One(StringValue(substring(value, 1)))))
  ELSE NodeMany(IF startsWith(value, <<"!">>) THEN "$nin" ELSE "$in",
                castArray(split(IF startsWith(value, <<"!">>) THEN substring(value, 1)
                                ELSE value,
                                <<",">>),
                          legacy))

decodePattern(value) ==
  IF startsWith(value, <<"~">>)
  THEN Return(Node("$like", One(StringValue(substring(value, 1)))))
  ELSE IF startsWith(value, <<"!", "~">>)
  THEN Return(Node("$nlike", One(StringValue(substring(value, 2)))))
  ELSE IF startsWith(value, <<"~", "*">>)
  THEN Return(Node("$ilike", One(StringValue(substring(value, 2)))))
  ELSE IF startsWith(value, <<"!", "~", "*">>)
  THEN Return(Node("$nilike", One(StringValue(substring(value, 3)))))
  ELSE IF startsWith(value, <<"!">>)
  THEN Return(Node("$ne", One(StringValue(substring(value, 1)))))
  ELSE Return(Node("$eq", One(StringValue(value))))

\* a decoder that tests for a number before it tests for the empty string
decodeTextNumberFirst(value, numericValue, legacy) ==
  IF ~isNaN(numericValue) THEN Return(Node("$eq", One(NumberValue(numericValue))))
  ELSE IF value = <<"!">> THEN Return(Node("$null", One(BooleanValue(FALSE))))
  ELSE IF comparisonPrefix(value) # <<>>
  THEN decodeComparison(value, comparisonPrefix(value), legacy)
  ELSE IF includes(value, <<".", ".">>) THEN decodeRange(value, legacy)
  ELSE IF includes(value, <<",">>) THEN decodeSet(value, legacy)
  ELSE decodePattern(value)

decodeText(value, numericValue, legacy) ==
  IF value = <<>> THEN Return(Node("$null", One(BooleanValue(TRUE))))
  ELSE IF value = <<"!">> THEN Return(Node("$null", One(BooleanValue(FALSE))))
  ELSE IF ~isNaN(numericValue) THEN Return(Node("$eq", One(NumberValue(numericValue))))
  ELSE IF comparisonPrefix(value) # <<>>
  THEN decodeComparison(value, comparisonPrefix(value), legacy)
  ELSE IF includes(value, <<".", ".">>) THEN decodeRange(value, legacy)
  ELSE IF includes(value, <<",">>) THEN decodeSet(value, legacy)
  ELSE decodePattern(value)

decodeValue(value, legacy) == decodeText(value, Number(value), legacy)

-----------------------------------------------------------------------------
(* Repeated keys, groups and the whole query *)

\* the value of "$and" in an object: an array of objects
Group(children) == [group |-> TRUE, children |-> children]

hasOwnProperty(obj, key) == key \in DOMAIN obj

\* delete obj[key]
deleteKey(obj, key) == [k \in (DOMAIN obj) \ {key} |-> obj[k]]

\* { ...obj, ...more }: the later entries win
spread(obj, more) == more @@ obj

EmptyObject == [k \in {} |-> {}]

\* a merge that lets a later occurrence of a key replace the earlier one
mergeOverwriting(queryObject, decodedValue, key) ==
  Return(spread(queryObject, decodedValue))

\* the forEach callback on an element that decoded to { key: ... }
mergeDecoded(queryObject, decodedValue, key) ==
  IF Cardinality(DOMAIN decodedValue) = 1
  THEN IF hasOwnProperty(queryObject, key)
       THEN Return(deleteKey(
              spread(queryObject,
                     Node("$and", Group(<<Node(key, queryObject[key]), decodedValue>>))),
              key))
       ELSE Return(spread(queryObject, decodedValue))
  ELSE Throw("Not implemented")

handleElement(queryObject, decodedValue) ==
  IF ~decodedValue.ok THEN decodedValue
  ELSE mergeDecoded(queryObject, decodedValue.val, CHOOSE k \in DOMAIN decodedValue.val : TRUE)

\* values.forEach(...) from position i on; a throw ends it
RECURSIVE forEachFrom(_, _, _, _)
forEachFrom(values, i, acc, legacy) ==
  IF ~acc.ok \/ i > Len(values) THEN acc
  ELSE forEachFrom(values, i + 1, handleElement(acc.val, decodeValue(values[i], legacy)), legacy)

handleArray(values, legacy) == forEachFrom(values, 1, Return(EmptyObject), legacy)

\* a value of a parsed query: one string, or the array of a repeated key
Str(s) == [array |-> FALSE, vals |-> <<s>>]

Arr(a) == [array |-> TRUE, vals |-> a]

\* parsePath(input).search of the URL library: the text from the first "?"
\* (there is no "#" in any input), empty when there is no "?"
searchOf(input) ==
  LET i == indexOf(input, <<"?">>)
  IN  IF i = 0 THEN <<>> ELSE SubSeq(input, i, Len(input))

RECURSIVE skipEquals(_)
skipEquals(param) ==
  IF Len(param) > 0 /\ param[1] = "=" THEN skipEquals(Tail(param)) ELSE param

\* one parameter matched against /([^=]+)=?(.*)/ (not anchored): the key is the
\* first run of characters other than "=", the value what follows the "=" after
\* it; a parameter with no such run is skipped
paramKey(param) ==
  LET p == skipEquals(param)
      i == indexOf(p, <<"=">>)
  IN  IF i = 0 THEN p ELSE SubSeq(p, 1, i - 1)

paramValue(param) ==
  LET p == skipEquals(param)
      i == indexOf(p, <<"=">>)
  IN  IF i = 0 THEN <<>> ELSE SubSeq(p, i + 1, Len(p))

RECURSIVE parseParams(_, _)
parseParams(params, object) ==
  IF params = <<>> THEN object
  ELSE LET param == Head(params)
           key   == paramKey(param)
           value == paramValue(param)
       IN  IF key = <<>> THEN parseParams(Tail(params), object)
           ELSE IF ~hasOwnProperty(object, key)
           THEN parseParams(Tail(params), spread(object, Node(key, Str(value))))
           ELSE parseParams(Tail(params),
                            spread(object, Node(key, Arr(Append(object[key].vals, value)))))

\* parseQuery of the URL library, on a text with no escapes
parseQuery(search) ==
  LET text == IF startsWith(search, <<"?">>) THEN substring(search, 1) ELSE search
  IN  parseParams(split(text, <<"&">>), EmptyObject)

getQuery(input) == parseQuery(searchOf(input))

replaceAll(s, from, to) == [i \in 1..Len(s) |-> IF s[i] = from THEN to ELSE s[i]]

\* the outcome of a loop that sets object[k] to the value of r[k] for every
\* key: a throw, or the object
collected(r) ==
  IF \E k \in DOMAIN r : ~r[k].ok
  THEN r[CHOOSE k \in DOMAIN r : ~r[k].ok]
  ELSE Return([k \in DOMAIN r |-> r[k].val])

decodeEntry(v, legacy) ==
  IF v.array THEN handleArray(v.vals, legacy) ELSE decodeValue(v.vals[1], legacy)

\* the for..of loop over Object.entries(query) shared by parseAndOrNot and
\* processQuery
decodeEntries(query, legacy) == collected([k \in DOMAIN query |-> decodeEntry(query[k], legacy)])

cleanValue(text) == SubSeq(text, 2, Len(text) - 1)

parseAndOrNot(value, legacy) ==
  IF value.array THEN Throw("TypeError")
  ELSE decodeEntries(getQuery(replaceAll(cleanValue(value.vals[1]), "|", "&")), legacy)

K_and == <<"a","n","d">>

K_or == <<"o","r">>

K_not == <<"n","o","t">>

K_page == <<"p","a","g","e">>

K_size == <<"s","i","z","e">>

K_sort == <<"s","o","r","t">>

K_q == <<"q">>

K_o == <<"o">>

F_and == <<"$","a","n","d">>

F_or == <<"$","o","r">>

F_not == <<"$","n","o","t">>

ReservedKeys == {K_and, K_or, K_not, K_page, K_size, K_sort, K_q}

\* a query value in a condition: absent and the empty string are falsy
truthy(q, key) == key \in DOMAIN q /\ (q[key].array \/ q[key].vals[1] # <<>>)

\* Number(x) of a query value: an array of two or more strings is NaN
numberOf(v) == IF v.array THEN NaN ELSE Number(v.vals[1])

NumberLiteral(digits) == [nan |-> FALSE, neg |-> FALSE, int |-> digits, frac |-> <<>>]

attach(filter, fkey, g) ==
  IF ~g.ok THEN g ELSE Return(spread(filter, Node(fkey, g.val)))

\* filter.$and = parseAndOrNot(and), when and is truthy
withGroup(filter, q, key, fkey, legacy) ==
  IF ~filter.ok \/ ~truthy(q, key) THEN filter
  ELSE attach(filter.val, fkey, parseAndOrNot(q[key], legacy))

processed(filter, q) ==
  IF ~filter.ok THEN filter
  ELSE Return([filter      |-> filter.val,
               page        |-> IF truthy(q, K_page) THEN numberOf(q[K_page])
                               ELSE NumberLiteral(<<"1">>),
               size        |-> IF truthy(q, K_size) THEN numberOf(q[K_size])
                               ELSE NumberLiteral(<<"1","0">>),
               sort        |-> IF truthy(q, K_sort) THEN q[K_sort] ELSE Str(<<"i","d">>),
               searchQuery |-> IF truthy(q, K_q) THEN q[K_q] ELSE Str(<<>>)])

restOf(q) == [k \in (DOMAIN q) \ ReservedKeys |-> q[k]]

processQuery(q, legacy) ==
  processed(withGroup(withGroup(withGroup(decodeEntries(restOf(q), legacy),
                                          q, K_and, F_and, legacy),
                                q, K_or, F_or, legacy),
                      q, K_not, F_not, legacy),
            q)

destructured(processedQuery) ==
  IF ~processedQuery.ok THEN processedQuery
  ELSE Return([filter     |-> processedQuery.val.filter,
               sort       |-> processedQuery.val.sort,
               search     |-> processedQuery.val.searchQuery,
               pagination |-> [page |-> processedQuery.val.page,
                               size |-> processedQuery.val.size]])

\* the filter options are read (include, exclude, alias, allowedOperators) and
\* none of them reaches processQuery
useDrizzleRestFilter(queryParam, options, legacy) ==
  destructured(processQuery(queryParam, legacy))

-----------------------------------------------------------------------------
(* The resource view: ordering, pagination and list *)

None == [some |-> FALSE]

Some(v) == [some |-> TRUE, v |-> v]

DefaultPageSize == 24

F_id == <<"i","d">>

F_name == <<"n","a","m","e">>

F_age == <<"a","g","e">>

F_email == <<"e","m","a","i","l">>

\* the columns of the table, in declaration order
columnNames == <<F_id, F_name, F_age>>

Range(seq) == {seq[i] : i \in 1..Len(seq)}

\* validFields.join('|') as a group of alternatives: an empty list is the one
\* empty alternative
alternatives(validFields) == IF validFields = <<>> THEN {<<>>} ELSE Range(validFields)

orderTokenOk(part, validFields) ==
  \/ part \in alternatives(validFields)
  \/ startsWith(part, <<"-">>) /\ substring(part, 1) \in alternatives(validFields)

\* ^([-]?(f1|f2)(?:,[-]?(f1|f2))*)?$ for field names free of "," and of
\* pattern characters
orderRegexMatches(text, validFields) ==
  \/ text = <<>>
  \/ \A i \in 1..Len(split(text, <<",">>)) :
       orderTokenOk(split(text, <<",">>)[i], validFields)

orderPair(part) ==
  [column    |-> IF startsWith(part, <<"-">>) THEN substring(part, 1) ELSE part,
   direction |-> IF startsWith(part, <<"-">>) THEN "desc" ELSE "asc"]

\* acc[column] = direction: a column keeps the place of its first occurrence
\* and takes the direction of its last
RECURSIVE reduceOrdering(_, _)
reduceOrdering(pairs, acc) ==
  IF pairs = <<>> THEN acc
  ELSE LET p == Head(pairs)
       IN  IF \E i \in 1..Len(acc) : acc[i].column = p.column
           THEN reduceOrdering(Tail(pairs),
                  [i \in 1..Len(acc) |-> IF acc[i].column = p.column THEN p ELSE acc[i]])
           ELSE reduceOrdering(Tail(pairs), Append(acc, p))

\* queryString is a query value or absent (None); the result is Return(Some(
\* ordering)), Return(None) for undefined, or the validation error
parseOrderQueryString(queryString, validFields) ==
  LET text == IF queryString.some THEN queryString.v.vals[1] ELSE <<>>
  IN  IF queryString.some /\ queryString.v.array THEN Throw("ZodError")
      ELSE IF ~orderRegexMatches(text, validFields) THEN Throw("ZodError")
      ELSE LET parts    == split(text, <<",">>)
               ordering == reduceOrdering([i \in 1..Len(parts) |-> orderPair(parts[i])], <<>>)
           IN  IF Len(ordering) > 0 THEN Return(Some(ordering)) ELSE Return(None)

get(q, key) == IF key \in DOMAIN q THEN Some(q[key]) ELSE None

RECURSIVE digitsToInt(_)
digitsToInt(d) == IF d = <<>> THEN 0 ELSE digitsToInt(SubSeq(d, 1, Len(d) - 1)) * 10 + DigitVal[d[Len(d)]]

\* (page - 1) * pageSize, where page is the number 1 or a query value that the
\* subtraction converts to a number; no number when that is NaN or a fraction
offsetOf(page, pageSize) ==
  LET n == IF page.some THEN numberOf(page.v) ELSE NumberLiteral(<<"1">>)
  IN  IF isNaN(n) \/ n.frac # <<>> THEN None
      ELSE Some(((IF n.neg THEN 0 - digitsToInt(n.int) ELSE digitsToInt(n.int)) - 1) * pageSize)

\* the query that list builds: the ordering, then limit and offset
listPlan(options, query) ==
  LET pageSize    == IF options.pageSize.some THEN options.pageSize.v ELSE DefaultPageSize
      page        == IF truthy(query, K_page) THEN Some(query[K_page]) ELSE None
      paginate    == \/ options.canPaginate = "auto" /\ K_page \in DOMAIN query
                     \/ options.canPaginate = "true"
      filtering   == None
      ordering    == IF truthy(query, K_o) /\ options.orderFields.some
                     THEN parseOrderQueryString(get(query, K_o), options.orderFields.v)
                     ELSE IF options.defaultOrdering.some /\ options.defaultOrdering.v # <<>>
                     THEN parseOrderQueryString(Some(Str(options.defaultOrdering.v)), columnNames)
                     ELSE Return(None)
  IN  IF ~ordering.ok THEN ordering
      ELSE Return([count    |-> paginate,
                   where    |-> filtering,
                   orderBy  |-> ordering.val,
                   paginate |-> paginate,
                   page     |-> page,
                   pageSize |-> pageSize,
                   limit    |-> IF paginate THEN Some(pageSize) ELSE None,
                   offset   |-> IF paginate THEN offsetOf(page, pageSize) ELSE None])

Min(a, b) == IF a < b THEN a ELSE b

Max(a, b) == IF a > b THEN a ELSE b

\* the rows that the store returns for a plan when the table holds n rows; a
\* plan with no usable offset is refused by the store
runQuery(p, n) ==
  IF ~p.paginate THEN Return([rows |-> n, count |-> None])
  ELSE IF ~p.offset.some \/ p.offset.v < 0 THEN Throw("DatabaseError")
  ELSE Return([rows  |-> Max(0, Min(p.limit.v, n - p.offset.v)),
               count |-> Some(n)])

CeilDiv(a, b) == (a + b - 1) \div b

\* what list returns once the query has answered
listResult(p, results) ==
  IF results.rows = 0 THEN Throw("TypeError")
  ELSE LET count == IF results.count.some THEN results.count.v ELSE results.rows
       IN  IF p.paginate
           THEN Return([paginated |-> TRUE,
                        page      |-> p.page,
                        pageSize  |-> p.pageSize,
                        count     |-> count,
                        pageCount |-> CeilDiv(count, p.pageSize),
                        results   |-> results.rows])
           ELSE Return([paginated |-> FALSE, results |-> results.rows])

\* a call to a collaborator: the transport (getQuery, getRouterParam,
\* readBody), the validation library (parse, with the schema), the store
\* (select, insert, update, delete) or a configured handler
Call(name, detail) == [call |-> name, with |-> detail]

\* a handler that is called after the built-in code has read the query
handlerCallsAfterQuery(operation) == <<Call("getQuery", "event"), Call("handler", operation)>>

\* handlers.x(getEvent(event)): the one call of a configured handler
handlerCalls(operation) == <<Call("handler", operation)>>

\* a list that asks the store for the total count in a statement of its own
listCallsCountQuery(p) ==
  IF p.ok THEN <<Call("getQuery", "event"), Call("select", "count"), Call("select", "list")>>
  ELSE <<Call("getQuery", "event")>>

\* list up to its await: the query is read, then the statement is sent unless
\* the ordering was refused
listCalls(p) ==
  IF p.ok THEN <<Call("getQuery", "event"), Call("select", "list")>>
  ELSE <<Call("getQuery", "event")>>

\* list after its await: the rows are validated once results[0] was read
listReplyCalls(results) ==
  IF results.ok /\ results.val.rows # 0 THEN <<Call("parse", "list")>> ELSE <<>>

\* the primary key column of the table
pk == F_id

\* _primaryKey[which]: the configured column, the one of the operation or the
\* default when the option is an object, and the primary key of the table
\* when there is no option
resolvedPrimaryKey(primaryKey, which) ==
  IF ~primaryKey.some THEN pk
  ELSE IF primaryKey.v.object
  THEN IF primaryKey.v[which].some THEN primaryKey.v[which].v ELSE primaryKey.v.default
  ELSE primaryKey.v.column

\* getTablePrimaryKeys(model)[0]: the first primary key column of the table,
\* undefined (None) when it has none
firstPrimaryKey(primaryKeys) == IF primaryKeys = <<>> THEN None ELSE Some(primaryKeys[1])

\* one entry of _primaryKey at construction, undefined (None) when neither
\* the option nor the table gives a column
primaryKeyFor(primaryKey, which, detected) ==
  IF ~primaryKey.some THEN detected
  ELSE IF primaryKey.v.object
  THEN Some(IF primaryKey.v[which].some THEN primaryKey.v[which].v ELSE primaryKey.v.default)
  ELSE Some(primaryKey.v.column)

\* the names of the entries of _primaryKey that are undefined, in key order
undefinedKeys(keys) ==
  (IF keys.retrieve.some THEN <<>> ELSE <<"retrieve">>)
    \o (IF keys.update.some THEN <<>> ELSE <<"update">>)
    \o (IF keys.delete.some THEN <<>> ELSE <<"delete">>)

\* a construction that does not test for undefined keys
constructedUnchecked(keys) == Return([primaryKey |-> keys])

\* the block that throws when a key is undefined, then the resource object
constructed(keys) ==
  IF Len(undefinedKeys(keys)) > 0
  THEN Throw([message |-> "primaryKey is undefined", keys |-> undefinedKeys(keys)])
  ELSE Return([primaryKey |-> keys])

\* useAPIView(options) on a table with the primary key columns given
useAPIView(primaryKey, primaryKeys) ==
  constructed([retrieve |-> primaryKeyFor(primaryKey, "retrieve", firstPrimaryKey(primaryKeys)),
               update   |-> primaryKeyFor(primaryKey, "update", firstPrimaryKey(primaryKeys)),
               delete   |-> primaryKeyFor(primaryKey, "delete", firstPrimaryKey(primaryKeys))])

\* the statement of a keyed operation: where model[primaryKey] = pk
keyedPlan(kind, primaryKey, value, values) ==
  [kind |-> kind, key |-> primaryKey, value |-> value, set |-> values]

\* results[0] of a keyed statement that matched the rows given: undefined
\* (None) when there is none
firstRow(p, matched) ==
  IF matched = 0 THEN None ELSE Some(spread(Node(p.key, p.value), p.set))

\* schema.parse(x): undefined is no object; a row of the table conforms
schemaParse(x) == IF x.some THEN Return(x) ELSE Throw("ZodError")

retrieveResult(p, matched) == schemaParse(firstRow(p, matched))

updateResult(p, matched) == schemaParse(firstRow(p, matched))

\* deletedIds[0] of returning({ deletedId: model[primaryKey] })
destroyResult(p, matched) ==
  Return(IF matched = 0 THEN None ELSE Some([deletedId |-> p.value]))

retrieveCalls == <<Call("getRouterParam", "event"), Call("select", "retrieve")>>

\* the name of a schema: the one passed to the call, or that of the operation
schemaOf(perCall, operation) == IF perCall THEN "call" ELSE operation

\* update up to its await: schema.parse(body) throws before the statement
updateCalls(body, perCall) ==
  <<Call("getRouterParam", "event"), Call("readBody", "event"),
    Call("parse", schemaOf(perCall, "update"))>>
    \o (IF body.valid THEN <<Call("update", "update")>> ELSE <<>>)

destroyCalls == <<Call("getRouterParam", "event"), Call("delete", "destroy")>>

\* an update that validates the row it returns with its own input schema
updateReplySchemaOfInput == "update"

\* the schema that validates the row an update returns: _schema.retrieve
updateReplySchema == "retrieve"

\* after the await: retrieve and update validate results[0], destroy does not
keyedReplyCalls(operation) ==
  IF operation = "retrieve" THEN <<Call("parse", "retrieve")>>
  ELSE IF operation = "update" THEN <<Call("parse", updateReplySchema)>>
  ELSE <<>>

\* a create that sends the insert before it validates the body
createCallsInsertFirst(body, perCall) ==
  <<Call("readBody", "event"), Call("insert", "create"),
    Call("parse", schemaOf(perCall, "create"))>>

\* create up to its await: schema.parse(body) throws before the insert
createCalls(body, perCall) ==
  <<Call("readBody", "event"), Call("parse", schemaOf(perCall, "create"))>>
    \o (IF body.valid THEN <<Call("insert", "create")>> ELSE <<>>)

\* db.insert(model).values(values).returning()
insertPlan(values) == [kind |-> "insert", set |-> values]

createReplyCalls(perCall) == <<Call("parse", schemaOf(perCall, "create"))>>

\* schema.parse(result[0]): the inserted row
createResult(p) == schemaParse(Some(p.set))

searchCalls == <<Call("getQuery", "event")>>

\* a path is its segments; a segment is a literal or a ":name" parameter
Seg(name) == [param |-> FALSE, name |-> name]

Param(name) == [param |-> TRUE, name |-> name]

S_search == <<"s","e","a","r","c","h">>

S_pk == <<"p","k">>

\* one call of router.get / post / put / delete / add
Route(method, path, handler) == [method |-> method, path |-> path, handler |-> handler]

\* handlers === 'all' || handlers.includes(name)
selected(handlers, name) == handlers.all \/ name \in handlers.names

routeIf(cond, route) == IF cond THEN <<route>> ELSE <<>>

\* an action path that gets the identifier segment whatever the detail flag
actionPathAlwaysDetail(path, action) ==
  (IF action.absolute THEN <<Seg(action.path)>> ELSE path \o <<Seg(action.path)>>)
    \o <<Param(S_pk)>>

\* (_actionPath.startsWith('/') ? _actionPath : path + '/' + _actionPath)
\*   + (_detail ? '/:pk' : ''), with _actionPath = actionPath ?? name
actionPath(path, action) ==
  (IF action.absolute THEN <<Seg(action.path)>> ELSE path \o <<Seg(action.path)>>)
    \o (IF action.detail.some /\ action.detail.v THEN <<Param(S_pk)>> ELSE <<>>)

\* router.add(_path, handler, actionMethod ?? 'get')
actionRoute(path, action) ==
  Route(IF action.method.some THEN action.method.v ELSE "get", actionPath(path, action),
        action.name)

\* register(router, path, handlers): the calls made on the router, in order
register(path, handlers, keys, actions) ==
  routeIf(selected(handlers, "list"), Route("get", path, "list"))
    \o routeIf(selected(handlers, "create"), Route("post", path, "create"))
    \o routeIf(selected(handlers, "retrieve"),
               Route("get", path \o <<Param(keys.retrieve)>>, "retrieve"))
    \o routeIf(selected(handlers, "update"),
               Route("put", path \o <<Param(keys.update)>>, "update"))
    \o routeIf(selected(handlers, "destroy"),
               Route("delete", path \o <<Param(keys.delete)>>, "destroy"))
    \o routeIf(selected(handlers, "search"), Route("get", path \o <<Seg(S_search)>>, "search"))
    \o (IF actions.some THEN [i \in 1..Len(actions.v) |-> actionRoute(path, actions.v[i])]
        ELSE <<>>)

K_count == <<"c","o","u","n","t">>

\* the fields of the list schema: Object.keys(schema.shape)
ListSchemaFields == Range(columnNames)

\* what useAPIView builds once and its operations close over: the options
\* (table, schemas, page size, field lists, default ordering), the resolved
\* primary keys and the column object of the list schema
Binding(options) ==
  [options     |-> options,
   primaryKey  |-> [retrieve |-> pk, update |-> pk, delete |-> pk],
   listColumns |-> ListSchemaFields]

\* a fieldsToColumns that hands out the column object of the binding itself
fieldsToColumnsShared(shape) == [shared |-> TRUE, fields |-> shape]

\* fieldsToColumns(model, schema): a new object with one entry per field of
\* the schema
fieldsToColumns(shape) == [shared |-> FALSE, fields |-> shape]

\* the binding after `selectableColumns.count = ...` when paginate holds: the
\* assignment reaches the binding only if selectableColumns is its own object
withCount(b, selectable, paginate) ==
  IF paginate /\ selectable.shared
  THEN [b EXCEPT !.listColumns = @ \cup {K_count}]
  ELSE b

\* !!((canPaginate === 'auto' && query.page !== undefined) || canPaginate === true)
paginateOf(options, query) ==
  \/ options.canPaginate = "auto" /\ K_page \in DOMAIN query
  \/ options.canPaginate = "true"

\* the keys of selectableColumns when the statement is built
selectedColumns(b, selectable, paginate) ==
  (IF selectable.shared THEN b.listColumns ELSE selectable.fields)
    \cup (IF paginate THEN {K_count} ELSE {})

-----------------------------------------------------------------------------
(* Inputs of the calls *)

ArrayTexts ==
  { <<"1">>, <<"2">>, <<">", "=", "1">>, <<"<", "2">>, <<"!", "a">>, <<">", "a">> }

ArrayInputs == UNION {[1..k -> ArrayTexts] : k \in 1..MaxOccur}

CastArrayTexts ==
  { <<"1">>, <<"a">>, <<"n","u","l","l">>, <<"t","r","u","e">>,
    <<"2","0","2","0","-","0","1","-","0","1">>,
    <<"9","0","0","7","1","9","9","2","5","4","7","4","0","9","9","2">> }

CastArrayInputs == UNION {[1..k -> CastArrayTexts] : k \in 0..MaxOccur}

F_zip == <<"z","i","p">>

LeafValues ==
  { None, Some(Str(<<"1">>)), Some(Str(<<">","=","1","8">>)), Some(Str(<<">","a">>)),
    Some(Arr(<<<<"1">>, <<"2">>>>)), Some(Arr(<<<<">","=","1">>, <<"<","2">>>>)) }

GroupValues ==
  { None, Some(Str(<<"(","a","g","e","=","1","|","z","i","p","=","2",")">>)),
    Some(Str(<<"(","?","a","g","e","=","1","|","a","g","e","=","2",")">>)),
    Some(Str(<<"(","?","a","g","e","=","1","|","z","i","p","=","2",")">>)),
    Some(Str(<<"(",")">>)) }

PageValues == { None, Some(Str(<<"1">>)), Some(Str(<<"2">>)), Some(Str(<<"0">>)), Some(Str(<<>>)) }

SortValues == { None, Some(Str(<<"-","n","a","m","e">>)) }

OrderValues ==
  { None, Some(Str(<<"-","n","a","m","e">>)), Some(Str(<<"e","m","a","i","l">>)),
    Some(Str(<<"n","a","m","e",",","-","n","a","m","e">>)) }

OrderTokens ==
  { <<"n","a","m","e">>, <<"-","n","a","m","e">>, <<"a","g","e">>, <<"-","a","g","e">>,
    <<"e","m","a","i","l">>, <<"-","-","n","a","m","e">>, <<>> }

RECURSIVE joinComma(_)
joinComma(tokens) ==
  IF Len(tokens) = 1 THEN tokens[1] ELSE tokens[1] \o <<",">> \o joinComma(Tail(tokens))

\* the order strings of one to MaxOccur tokens
OrderTexts == {joinComma(tokens) : tokens \in UNION {[1..k -> OrderTokens] : k \in 1..MaxOccur}}

ValidFieldLists == { <<F_name, F_age>>, <<F_name>>, <<>> }

PrimaryKeyOptions ==
  { None, Some([object |-> FALSE, column |-> F_name]),
    Some([object |-> TRUE, retrieve |-> None, update |-> Some(F_name), delete |-> None,
          default |-> F_id]) }

\* the primaryKey option of a construction: absent, one column, or an object
\* with a default and any of the three operation keys
PrimaryKeyConfigs ==
  {None, Some([object |-> FALSE, column |-> F_name])}
    \cup {Some([object |-> TRUE, retrieve |-> r, update |-> u, delete |-> d, default |-> F_id]) :
            r \in {None, Some(F_name)}, u \in {None, Some(F_age)}, d \in {None, Some(F_name)}}

\* the primary key columns of the table, in column order
TablePrimaryKeys == { <<>>, <<F_id>>, <<F_age, F_id>> }

\* the handlers argument of register: 'all' or a list of operation names
HandlerSubsets ==
  {[all |-> TRUE, names |-> {}]}
    \cup {[all |-> FALSE, names |-> n] :
            n \in SUBSET {"list", "create", "retrieve", "update", "destroy", "search"}}

\* the resolved key columns of a resource
ResolvedKeys ==
  { [retrieve |-> F_id, update |-> F_id, delete |-> F_id],
    [retrieve |-> F_name, update |-> F_age, delete |-> F_id] }

\* custom actions; path is actionPath ?? name without its leading "/"
ActionConfigs ==
  { [name |-> "publish", path |-> <<"p","u","b">>, absolute |-> FALSE, method |-> None,
     detail |-> None],
    [name |-> "archive", path |-> <<"a","r","c">>, absolute |-> TRUE, method |-> Some("post"),
     detail |-> Some(TRUE)],
    [name |-> "stats", path |-> <<"s","t","a","t","s">>, absolute |-> FALSE, method |-> None,
     detail |-> Some(TRUE)],
    [name |-> "purge", path |-> <<"p","u","r","g","e">>, absolute |-> FALSE,
     method |-> Some("delete"), detail |-> Some(FALSE)] }

MaxActions == 2

ActionLists == {None} \cup {Some(a) : a \in UNION {[1..k -> ActionConfigs] : k \in 0..MaxActions}}

BasePath == <<Seg(<<"i","t","e","m","s">>)>>

\* the value of the route parameter
RouteValues == { <<"1">>, <<"2">> }

\* a request body: whether it conforms to the update schema, and its values
Bodies ==
  { [valid |-> TRUE, values |-> Node(F_age, <<"1">>)], [valid |-> TRUE, values |-> EmptyObject],
    [valid |-> FALSE, values |-> EmptyObject] }

SearchValues == { None, Some(Str(<<>>)), Some(Str(<<"a">>)) }

\* the object that holds the present entries of an optional-valued map
MkQuery(f) == [k \in {k \in DOMAIN f : f[k].some} |-> f[k].v]

FilterOptions == { [include |-> None], [include |-> Some({F_age})] }

ListOptions ==
  [ handler         : BOOLEAN,
    canPaginate     : {"auto", "true", "false"},
    pageSize        : {None, Some(2)},
    orderFields     : {None, Some(<<F_name>>)},
    defaultOrdering : {None, Some(<<"a","g","e">>)},
    filterFields    : {None, Some(<<F_age>>)} ]

DefaultOptions ==
  [handler |-> FALSE, canPaginate |-> "auto", pageSize |-> None, orderFields |-> None,
   defaultOrdering |-> None, filterFields |-> None]

-----------------------------------------------------------------------------
(* One call per behaviour: pc goes from "idle" to "done", through "awaiting"
   when the call hands a query to the store *)

Init ==
  /\ pc = "idle"
  /\ op = "none"
  /\ arg = <<>>
  /\ plan = None
  /\ out = Throw("none")
  /\ calls = <<>>
  /\ binding = Binding(DefaultOptions)
  /\ legacyDates \in BOOLEAN

CastValue ==
  /\ pc = "idle"
  /\ \E value \in RawValues :
       /\ arg' = value
       /\ out' = castValue(value, legacyDates)
  /\ op' = "castValue"
  /\ pc' = "done"
  /\ UNCHANGED <<plan, calls, binding, legacyDates>>

CastNumberish ==
  /\ pc = "idle"
  /\ \E value \in RawValues :
       /\ arg' = value
       /\ out' = castNumberish(value, legacyDates)
  /\ op' = "castNumberish"
  /\ pc' = "done"
  /\ UNCHANGED <<plan, calls, binding, legacyDates>>

CastArray ==
  /\ pc = "idle"
  /\ \E value \in CastArrayInputs :
       /\ arg' = value
       /\ out' = castArray(value, legacyDates)
  /\ op' = "castArray"
  /\ pc' = "done"
  /\ UNCHANGED <<plan, calls, binding, legacyDates>>

DecodeValue ==
  /\ pc = "idle"
  /\ \E value \in RawValues :
       /\ arg' = value
       /\ out' = decodeValue(value, legacyDates)
  /\ op' = "decodeValue"
  /\ pc' = "done"
  /\ UNCHANGED <<plan, calls, binding, legacyDates>>

HandleArray ==
  /\ pc = "idle"
  /\ \E values \in ArrayInputs :
       /\ arg' = values
       /\ out' = handleArray(values, legacyDates)
  /\ op' = "handleArray"
  /\ pc' = "done"
  /\ UNCHANGED <<plan, calls, binding, legacyDates>>

UseDrizzleRestFilter ==
  /\ pc = "idle"
  /\ \E options \in FilterOptions, a \in LeafValues, z \in LeafValues,
        g \in GroupValues, n \in GroupValues, pg \in PageValues, so \in SortValues :
       LET query == MkQuery((F_age :> a) @@ (F_zip :> z) @@ (K_and :> g) @@ (K_not :> n)
                            @@ (K_page :> pg) @@ (K_sort :> so))
       IN  /\ arg' = [query |-> query, options |-> options]
           /\ out' = useDrizzleRestFilter(query, options, legacyDates)
  /\ op' = "useDrizzleRestFilter"
  /\ pc' = "done"
  /\ UNCHANGED <<plan, calls, binding, legacyDates>>

ParseOrderQueryString ==
  /\ pc = "idle"
  /\ \E queryString \in {None} \cup {Some(Str(t)) : t \in OrderTexts},
        validFields \in ValidFieldLists :
       /\ arg' = [queryString |-> queryString, validFields |-> validFields]
       /\ out' = parseOrderQueryString(queryString, validFields)
  /\ op' = "parseOrderQueryString"
  /\ pc' = "done"
  /\ UNCHANGED <<plan, calls, binding, legacyDates>>

\* list up to its await: the configured handler replaces it; otherwise the
\* query is built and handed to the store
List ==
  /\ pc = "idle"
  /\ \E options \in ListOptions, a \in {None, Some(Str(<<">","=","1","8">>))},
        z \in {None, Some(Str(<<"1">>))}, pg \in PageValues, so \in SortValues,
        o \in OrderValues :
       LET query == MkQuery((F_age :> a) @@ (F_zip :> z) @@ (K_page :> pg)
                            @@ (K_sort :> so) @@ (K_o :> o))
           p     == listPlan(options, query)
       IN  /\ arg' = [query |-> query, options |-> options]
           /\ calls' = IF options.handler THEN handlerCalls("list") ELSE listCalls(p)
           /\ binding' = IF options.handler THEN binding
                         ELSE withCount(binding, fieldsToColumns(binding.listColumns),
                                        paginateOf(options, query))
           /\ IF options.handler
              THEN pc' = "done" /\ plan' = None /\ out' = Return([handler |-> TRUE])
              ELSE IF ~p.ok
              THEN pc' = "done" /\ plan' = None /\ out' = p
              ELSE pc' = "awaiting" /\ plan' = Some(p.val) /\ out' = out
  /\ op' = "list"
  /\ UNCHANGED legacyDates

\* the store answers the query of list, for a table of n rows that conform to
\* the list schema, or fails
ListReply ==
  /\ pc = "awaiting"
  /\ op = "list"
  /\ \E n \in 0..MaxRows, fails \in BOOLEAN :
       LET results == IF fails THEN Throw("DatabaseError") ELSE runQuery(plan.v, n)
       IN  /\ out' = IF results.ok THEN listResult(plan.v, results.val) ELSE results
           /\ calls' = calls \o listReplyCalls(results)
  /\ pc' = "done"
  /\ UNCHANGED <<op, arg, plan, binding, legacyDates>>

UseAPIView ==
  /\ pc = "idle"
  /\ \E primaryKey \in PrimaryKeyConfigs, primaryKeys \in TablePrimaryKeys :
       /\ arg' = [primaryKey |-> primaryKey, primaryKeys |-> primaryKeys]
       /\ out' = useAPIView(primaryKey, primaryKeys)
  /\ op' = "useAPIView"
  /\ pc' = "done"
  /\ UNCHANGED <<plan, calls, binding, legacyDates>>

Register ==
  /\ pc = "idle"
  /\ \E handlers \in HandlerSubsets, keys \in ResolvedKeys, actions \in ActionLists :
       /\ arg' = [handlers |-> handlers, keys |-> keys, actions |-> actions]
       /\ out' = Return(register(BasePath, handlers, keys, actions))
  /\ op' = "register"
  /\ pc' = "done"
  /\ UNCHANGED <<plan, calls, binding, legacyDates>>

Retrieve ==
  /\ pc = "idle"
  /\ \E handler \in BOOLEAN, primaryKey \in PrimaryKeyOptions, value \in RouteValues :
       /\ arg' = [handler |-> handler, primaryKey |-> primaryKey, value |-> value]
       /\ IF handler
          THEN /\ pc' = "done" /\ plan' = None /\ out' = Return([handler |-> TRUE])
               /\ calls' = handlerCalls("retrieve")
          ELSE /\ pc' = "awaiting"
               /\ plan' = Some(keyedPlan("select", resolvedPrimaryKey(primaryKey, "retrieve"),
                                          value, EmptyObject))
               /\ out' = out
               /\ calls' = retrieveCalls
  /\ op' = "retrieve"
  /\ UNCHANGED <<binding, legacyDates>>

\* update up to its await: the body is validated, with the schema of the call
\* when one is passed, before the statement is built
Update ==
  /\ pc = "idle"
  /\ \E handler \in BOOLEAN, primaryKey \in PrimaryKeyOptions, value \in RouteValues,
        body \in Bodies, schema \in BOOLEAN :
       /\ arg' = [handler |-> handler, primaryKey |-> primaryKey, value |-> value,
                  body |-> body, schema |-> schema]
       /\ IF handler
          THEN /\ pc' = "done" /\ plan' = None /\ out' = Return([handler |-> TRUE])
               /\ calls' = handlerCalls("update")
          ELSE /\ calls' = updateCalls(body, schema)
               /\ IF ~body.valid
                  THEN pc' = "done" /\ plan' = None /\ out' = Throw("ZodError")
                  ELSE /\ pc' = "awaiting"
                       /\ plan' = Some(keyedPlan("update",
                                                  resolvedPrimaryKey(primaryKey, "update"),
                                                  value, body.values))
                       /\ out' = out
  /\ op' = "update"
  /\ UNCHANGED <<binding, legacyDates>>

Destroy ==
  /\ pc = "idle"
  /\ \E handler \in BOOLEAN, primaryKey \in PrimaryKeyOptions, value \in RouteValues :
       /\ arg' = [handler |-> handler, primaryKey |-> primaryKey, value |-> value]
       /\ IF handler
          THEN /\ pc' = "done" /\ plan' = None /\ out' = Return([handler |-> TRUE])
               /\ calls' = handlerCalls("destroy")
          ELSE /\ pc' = "awaiting"
               /\ plan' = Some(keyedPlan("delete", resolvedPrimaryKey(primaryKey, "delete"),
                                          value, EmptyObject))
               /\ out' = out
               /\ calls' = destroyCalls
  /\ op' = "destroy"
  /\ UNCHANGED <<binding, legacyDates>>

\* the store answers the statement of a keyed operation: the key column is
\* unique or not, so the statement matches zero, one or more rows, or fails
KeyedReply ==
  /\ pc = "awaiting"
  /\ op \in {"retrieve", "update", "destroy"}
  /\ \E matched \in 0..MaxRows, fails \in BOOLEAN :
       /\ out' = IF fails THEN Throw("DatabaseError")
                 ELSE IF op = "retrieve" THEN retrieveResult(plan.v, matched)
                 ELSE IF op = "update" THEN updateResult(plan.v, matched)
                 ELSE destroyResult(plan.v, matched)
       /\ calls' = IF fails THEN calls ELSE calls \o keyedReplyCalls(op)
  /\ pc' = "done"
  /\ UNCHANGED <<op, arg, plan, binding, legacyDates>>

\* create up to its await: the body is validated before the insert is built
Create ==
  /\ pc = "idle"
  /\ \E handler \in BOOLEAN, body \in Bodies, schema \in BOOLEAN :
       /\ arg' = [handler |-> handler, body |-> body, schema |-> schema]
       /\ IF handler
          THEN /\ pc' = "done" /\ plan' = None /\ out' = Return([handler |-> TRUE])
               /\ calls' = handlerCalls("create")
          ELSE /\ calls' = createCalls(body, schema)
               /\ IF ~body.valid
                  THEN pc' = "done" /\ plan' = None /\ out' = Throw("ZodError")
                  ELSE /\ pc' = "awaiting"
                       /\ plan' = Some(insertPlan(body.values))
                       /\ out' = out
  /\ op' = "create"
  /\ UNCHANGED <<binding, legacyDates>>

\* the store answers the insert with the inserted row, or fails
CreateReply ==
  /\ pc = "awaiting"
  /\ op = "create"
  /\ \E fails \in BOOLEAN :
       /\ out' = IF fails THEN Throw("DatabaseError") ELSE createResult(plan.v)
       /\ calls' = IF fails THEN calls ELSE calls \o createReplyCalls(arg.schema)
  /\ pc' = "done"
  /\ UNCHANGED <<op, arg, plan, binding, legacyDates>>

\* search up to its timer: an empty or absent q returns at once
Search ==
  /\ pc = "idle"
  /\ \E handler \in BOOLEAN, q \in SearchValues :
       LET query == MkQuery((K_q :> q))
       IN  /\ arg' = [handler |-> handler, query |-> query]
           /\ IF handler
              THEN /\ pc' = "done" /\ out' = Return([handler |-> TRUE])
                   /\ calls' = handlerCalls("search")
              ELSE /\ calls' = searchCalls
                   /\ IF ~truthy(query, K_q)
                      THEN pc' = "done" /\ out' = Return(<<>>)
                      ELSE pc' = "awaiting" /\ out' = out
  /\ op' = "search"
  /\ plan' = None
  /\ UNCHANGED <<binding, legacyDates>>

\* the timer of search fires and the promise resolves to the empty array
SearchReply ==
  /\ pc = "awaiting"
  /\ op = "search"
  /\ out' = Return(<<>>)
  /\ pc' = "done"
  /\ UNCHANGED <<op, arg, plan, calls, binding, legacyDates>>

-----------------------------------------------------------------------------
(* createFormKitSchema: a form schema from the columns of a table.  A column
   is [name, dataType, notNull]; the key of a column in the table equals its
   name.  An absent property of a node is None.  An absent options object
   is the options with every property None. *)

MaxColumns == 2

\* the mapping of part_002 from column type to element; any other type is
\* answered with 'text'
COLUMN_TYPE_TO_FORMKIT_EL ==
  [t \in {"boolean", "date", "json"} |->
     CASE t = "boolean" -> "checkbox"
       [] t = "date" -> "date"
       [] t = "json" -> "textarea"]

required(column) == IF column.notNull THEN Some("required") ELSE None

labelled(formkit, column) ==
  [formkit |-> formkit, label |-> column.name, name |-> column.name,
   validation |-> required(column)]

mapColumnToSchema(column) ==
  labelled(IF column.dataType \in DOMAIN COLUMN_TYPE_TO_FORMKIT_EL
           THEN COLUMN_TYPE_TO_FORMKIT_EL[column.dataType]
           ELSE "text", column)

getStringInput(column) == labelled("text", column)

getNumericInput(column) ==
  [formkit |-> "input",
   type |-> IF column.dataType = "number" THEN "number" ELSE "text",
   validation |-> IF column.dataType = "number" THEN Some("number") ELSE None]

getBooleanInput(column) == labelled("checkbox", column)

getDateInput(column) == labelled("date", column)

getArrayInput(column) == labelled("textarea", column)

getJsonInput(column) == labelled("textarea", column)

SupportedDataTypes == {"string", "number", "boolean", "date", "array", "json"}

\* the switch of createFormkitSchema.ts on a supported data type
inputOf(column) ==
  CASE column.dataType = "string" -> getStringInput(column)
    [] column.dataType = "number" -> getNumericInput(column)
    [] column.dataType = "boolean" -> getBooleanInput(column)
    [] column.dataType = "date" -> getDateInput(column)
    [] column.dataType = "array" -> getArrayInput(column)
    [] column.dataType = "json" -> getJsonInput(column)

\* `columnEntries.filter(...)` returns a new array, which is dropped: the
\* entries that are mapped are all the entries
entriesAfterExclude(columnEntries, exclude) == columnEntries

pushed(schema, include) == IF include.some THEN schema \o include.v ELSE schema

formOf(schema, useForm) ==
  IF useForm.some /\ useForm.v
  THEN [formkit |-> "form", children |-> schema]
  ELSE schema

\* createFormkitSchema.ts; typed chooses its switch on the data type, and
\* ~typed the mapColumnToSchema of part_002
createFormKitSchema(table, options, typed) ==
  LET columnEntries == entriesAfterExclude(table.columns, options.exclude)
  IN  IF Len(table.columns) = 0
      THEN Throw("Table has no columns")
      ELSE IF typed /\ \E i \in 1..Len(columnEntries) :
                          columnEntries[i].dataType \notin SupportedDataTypes
      THEN Throw("Column type not supported")
      ELSE Return(formOf(pushed([i \in 1..Len(columnEntries) |->
                                   IF typed THEN inputOf(columnEntries[i])
                                   ELSE mapColumnToSchema(columnEntries[i])],
                                options.include),
                         options.useForm))

TableColumns ==
  { [name |-> "id", dataType |-> "number", notNull |-> TRUE],
    [name |-> "title", dataType |-> "string", notNull |-> TRUE],
    [name |-> "note", dataType |-> "string", notNull |-> FALSE],
    [name |-> "done", dataType |-> "boolean", notNull |-> TRUE],
    [name |-> "born", dataType |-> "date", notNull |-> FALSE],
    [name |-> "tags", dataType |-> "array", notNull |-> FALSE],
    [name |-> "meta", dataType |-> "json", notNull |-> FALSE],
    [name |-> "big", dataType |-> "bigint", notNull |-> FALSE] }

FormTables ==
  { [name |-> "todo", columns |-> cs] :
      cs \in { c \in UNION { [1..n -> TableColumns] : n \in 0..MaxColumns } :
                 \A i, j \in 1..Len(c) : c[i].name = c[j].name => i = j } }

ExtraNode ==
  [formkit |-> "submit", label |-> "Save", name |-> "save", validation |-> None]

ExcludeOptions ==
  { None, Some(<<>>), Some(<<"id">>), Some(<<"title", "nope">>) }

IncludeOptions == { None, Some(<<>>), Some(<<ExtraNode>>) }

UseFormOptions == { None, Some(FALSE), Some(TRUE) }

CreateFormKitSchema ==
  /\ pc = "idle"
  /\ \E table \in FormTables, exclude \in ExcludeOptions,
        include \in IncludeOptions, useForm \in UseFormOptions,
        typed \in BOOLEAN :
       LET options == [exclude |-> exclude, include |-> include,
                       useForm |-> useForm]
       IN  /\ arg' = [table |-> table, options |-> options, typed |-> typed]
           /\ out' = createFormKitSchema(table, options, typed)
  /\ op' = "createFormKitSchema"
  /\ pc' = "done"
  /\ UNCHANGED <<plan, calls, binding, legacyDates>>

-----------------------------------------------------------------------------
(* Several requests in flight on one resource: each request r has its own
   pc[r], op[r], arg[r], plan[r] and out[r], and all share the binding *)

MaxRequests == 2

Requests == 1..MaxRequests

\* the resources of the concurrent runs: pagination mode and page size vary
ConcurrentOptions ==
  {o \in ListOptions : /\ ~o.handler /\ ~o.orderFields.some
                       /\ ~o.defaultOrdering.some /\ ~o.filterFields.some}

ConcurrentPages == { None, Some(Str(<<"1">>)), Some(Str(<<"2">>)) }

InitConcurrent ==
  /\ pc = [r \in Requests |-> "idle"]
  /\ op = [r \in Requests |-> "none"]
  /\ arg = [r \in Requests |-> EmptyObject]
  /\ plan = [r \in Requests |-> None]
  /\ out = [r \in Requests |-> Throw("none")]
  /\ calls = <<>>
  /\ binding \in {Binding(o) : o \in ConcurrentOptions}
  /\ legacyDates = FALSE

\* the statement of a list request with the columns it selects
selectPlan(p, columns) == [query |-> p, columns |-> columns]

\* request r runs list up to its await
ListOf(r) ==
  /\ pc[r] = "idle"
  /\ \E pg \in ConcurrentPages :
       LET query == MkQuery((K_page :> pg))
           p     == listPlan(binding.options, query)
       IN  /\ arg' = [arg EXCEPT ![r] = query]
           /\ plan' = [plan EXCEPT ![r] =
                         Some(selectPlan(p.val,
                                         selectedColumns(binding,
                                                         fieldsToColumns(binding.listColumns),
                                                         paginateOf(binding.options, query))))]
           /\ binding' = withCount(binding, fieldsToColumns(binding.listColumns),
                                   paginateOf(binding.options, query))
  /\ pc' = [pc EXCEPT ![r] = "awaiting"]
  /\ op' = [op EXCEPT ![r] = "list"]
  /\ UNCHANGED <<out, calls, legacyDates>>

\* the store answers the statement of request r, or fails
ListReplyOf(r) ==
  /\ pc[r] = "awaiting"
  /\ \E n \in 0..MaxRows, fails \in BOOLEAN :
       LET results == IF fails THEN Throw("DatabaseError") ELSE runQuery(plan[r].v.query, n)
       IN  out' = [out EXCEPT ![r] = IF results.ok THEN listResult(plan[r].v.query, results.val)
                                     ELSE results]
  /\ pc' = [pc EXCEPT ![r] = "done"]
  /\ UNCHANGED <<op, arg, plan, calls, binding, legacyDates>>

\* the response of request r is sent and r takes the next request
RespondOf(r) ==
  /\ pc[r] = "done"
  /\ pc' = [pc EXCEPT ![r] = "idle"]
  /\ op' = [op EXCEPT ![r] = "none"]
  /\ arg' = [arg EXCEPT ![r] = EmptyObject]
  /\ plan' = [plan EXCEPT ![r] = None]
  /\ out' = [out EXCEPT ![r] = Throw("none")]
  /\ UNCHANGED <<calls, binding, legacyDates>>

NextConcurrent ==
  \/ \E r \in Requests : ListOf(r)
  \/ \E r \in Requests : ListReplyOf(r)
  \/ \E r \in Requests : RespondOf(r)

SpecConcurrent == InitConcurrent /\ [][NextConcurrent]_vars

-----------------------------------------------------------------------------
(* The single-call specification *)

Next ==
  \/ CastValue
  \/ CastNumberish
  \/ CastArray
  \/ DecodeValue
  \/ HandleArray
  \/ UseDrizzleRestFilter
  \/ ParseOrderQueryString
  \/ List
  \/ ListReply
  \/ UseAPIView
  \/ Register
  \/ Retrieve
  \/ Update
  \/ Destroy
  \/ KeyedReply
  \/ Create
  \/ CreateReply
  \/ Search
  \/ SearchReply
  \/ CreateFormKitSchema

Spec == Init /\ [][Next]_vars

-----------------------------------------------------------------------------
(* Properties *)

Done(o) == pc = "done" /\ op = o

Text18 == <<"1", "8">>

Number18 == [variant |-> "Number", text |-> Text18, exact |-> TRUE]

\* the request of the end-to-end example: age=">=18"&sort=-name&page=1 on a
\* resource with filterable age, orderable name and page size 2
ExampleRequest(a) ==
  /\ ~a.options.handler
  /\ a.options.canPaginate = "auto"
  /\ a.options.filterFields = Some(<<F_age>>)
  /\ a.options.orderFields = Some(<<F_name>>)
  /\ a.options.pageSize = Some(2)
  /\ a.query = (F_age :> Str(<<">", "=", "1", "8">>)) @@ (K_sort :> Str(<<"-", "n", "a", "m", "e">>))
                 @@ (K_page :> Str(<<"1">>))

\* C1: the query that list executes for the example request filters
\* age >= 18, orders by name descending and is limited to 2 rows at offset 0.
C1_ExamplePlan ==
  (op = "list" /\ ExampleRequest(arg)) =>
    /\ plan.some
    /\ plan.v.where = Some((F_age :> Node("$gte", One(Number18))))
    /\ plan.v.orderBy = Some(<<[column |-> F_name, direction |-> "desc"]>>)
    /\ plan.v.limit = Some(2)
    /\ plan.v.offset = Some(0)

UnknownKeys(query, allowed) == {k \in (DOMAIN query) \ ReservedKeys : k \notin allowed}

\* C2: a query with a non-reserved key outside the filterable allow-list is
\* rejected with UnknownFilterField, by the filter parser and by list.
C2_UnknownFieldRejected ==
  /\ (Done("useDrizzleRestFilter") /\ arg.options.include.some
      /\ UnknownKeys(arg.query, arg.options.include.v) # {})
       => out = Throw("UnknownFilterField")
  /\ (Done("list") /\ ~arg.options.handler /\ arg.options.filterFields.some
      /\ UnknownKeys(arg.query, Range(arg.options.filterFields.v)) # {})
       => out = Throw("UnknownFilterField")

\* a call of handleArray on two raw strings that both decode
TwoDecoded ==
  /\ Done("handleArray")
  /\ Len(arg) = 2
  /\ decodeValue(arg[1], legacyDates).ok
  /\ decodeValue(arg[2], legacyDates).ok

First == decodeValue(arg[1], legacyDates).val

Second == decodeValue(arg[2], legacyDates).val

\* C3 (as stated): two occurrences of a key always give an And whose children
\* are the two decoded predicates, in order of occurrence.
C3_TwoOccurrencesAnd ==
  TwoDecoded => out = Return(Node("$and", Group(<<First, Second>>)))

\* C3 (amended): two occurrences that decode to the same operator give an And
\* of the two decoded predicates in order of occurrence; two occurrences that
\* decode to different operators give one node that holds both operator
\* entries and no And; either way the second does not overwrite the first.
C3_TwoOccurrencesMerged ==
  TwoDecoded =>
    IF DOMAIN First = DOMAIN Second
    THEN out = Return(Node("$and", Group(<<First, Second>>)))
    ELSE /\ out.ok
         /\ DOMAIN out.val = DOMAIN First \cup DOMAIN Second
         /\ \A k \in DOMAIN First : out.val[k] = First[k]
         /\ \A k \in DOMAIN Second : out.val[k] = Second[k]

C3_Witness ==
  /\ TwoDecoded
  /\ DOMAIN First = DOMAIN Second
  /\ First # Second
  /\ out.ok
  /\ "$and" \in DOMAIN out.val

\* an optionally signed decimal numeral: digits with at most one ".", and at
\* least one digit
PlainNumber(s) ==
  LET body == IF Len(s) > 0 /\ s[1] \in {"-", "+"} THEN Tail(s) ELSE s
  IN  /\ \E i \in 1..Len(body) : body[i] \in Digits
      /\ \A i \in 1..Len(body) : body[i] \in Digits \cup {"."}
      /\ Cardinality({i \in 1..Len(body) : body[i] = "."}) <= 1

\* C4: decode gives Null(true) for the empty string, Null(false) for "!" and
\* Eq of the number for a plain number, and a Null node for no other string.
C4_NullAndNumberFirst ==
  Done("decodeValue") =>
    /\ arg = <<>> => out = Return(Node("$null", One(BooleanValue(TRUE))))
    /\ arg = <<"!">> => out = Return(Node("$null", One(BooleanValue(FALSE))))
    /\ PlainNumber(arg) =>
         /\ out = Return(Node("$eq", One(NumberValue(Number(arg)))))
         /\ out.val["$eq"].items[1].variant = "Number"
    /\ (out.ok /\ "$null" \in DOMAIN out.val) => arg \in {<<>>, <<"!">>}

C4_Witness ==
  /\ Done("decodeValue")
  /\ arg = <<"0", "1", ".", "5", "0">>
  /\ out = Return(Node("$eq", One([variant |-> "Number", text |-> <<"1", ".", "5">>,
                                   exact |-> TRUE])))

\* the rules that a string passes before the comparison rule
PastNumberRule(s) == s \notin {<<>>, <<"!">>} /\ ~PlainNumber(s)

ComparisonOf(s) ==
  IF startsWith(s, <<">", "=">>) THEN [key |-> "$gte", rest |-> substring(s, 2)]
  ELSE IF startsWith(s, <<"<", "=">>) THEN [key |-> "$lte", rest |-> substring(s, 2)]
  ELSE IF startsWith(s, <<">">>) THEN [key |-> "$gt", rest |-> substring(s, 1)]
  ELSE [key |-> "$lt", rest |-> substring(s, 1)]

HasComparisonPrefix(s) == startsWith(s, <<">">>) \/ startsWith(s, <<"<">>)

\* C5: a non-numeric string with a comparison prefix decodes to the node of
\* that prefix with a Number, BigInteger or Date operand when the remainder is
\* a number or a date, and decode fails when it is neither (the empty
\* remainder included).
C5_ComparisonNumberish ==
  (Done("decodeValue") /\ PastNumberRule(arg) /\ HasComparisonPrefix(arg)) =>
    LET c == ComparisonOf(arg)
    IN  IF PlainNumber(c.rest) \/ isValidDate(c.rest, legacyDates)
        THEN /\ out.ok
             /\ DOMAIN out.val = {c.key}
             /\ ~out.val[c.key].list
             /\ out.val[c.key].items[1].variant \in {"Number", "BigInteger", "Date"}
        ELSE ~out.ok

ReachesRange(s) ==
  PastNumberRule(s) /\ ~HasComparisonPrefix(s) /\ includes(s, <<".", ".">>)

RangeSides(s) ==
  LET body == IF startsWith(s, <<"!">>) THEN substring(s, 1) ELSE s
      i    == indexOf(body, <<".", ".">>)
      tail == SubSeq(body, i + 2, Len(body))
      j    == indexOf(tail, <<".", ".">>)
  IN  [lo |-> SubSeq(body, 1, i - 1),
       hi |-> IF j = 0 THEN tail ELSE SubSeq(tail, 1, j - 1)]

\* C6: a string that reaches the range rule decodes to Between (NotBetween
\* with a leading "!") of the two coerced sides when both have the same
\* variant, and is rejected otherwise.
C6_RangeSameVariant ==
  (Done("decodeValue") /\ ReachesRange(arg)) =>
    LET lo == castValue(RangeSides(arg).lo, legacyDates)
        hi == castValue(RangeSides(arg).hi, legacyDates)
        key == IF startsWith(arg, <<"!">>) THEN "$nbetween" ELSE "$between"
    IN  IF lo.ok /\ hi.ok /\ lo.val.variant = hi.val.variant
        THEN out = Return(Node(key, Many(<<lo.val, hi.val>>)))
        ELSE ~out.ok

ReachesSet(s) ==
  /\ PastNumberRule(s) /\ ~HasComparisonPrefix(s)
  /\ ~includes(s, <<".", ".">>) /\ includes(s, <<",">>)

SetKey(s) ==
  IF startsWith(s, <<"@", ">">>) THEN "$contained"
  ELSE IF startsWith(s, <<"@">>) THEN "$contains"
  ELSE IF startsWith(s, <<"!">>) THEN "$nin"
  ELSE "$in"

\* C7: a string that reaches the set rule decodes to Contained, Contains,
\* NotIn or In by its prefix, and the list of In and NotIn is the items coerced
\* one by one and all of one variant.
C7_SetForms ==
  (Done("decodeValue") /\ ReachesSet(arg) /\ out.ok) =>
    /\ DOMAIN out.val = {SetKey(arg)}
    /\ SetKey(arg) \in {"$in", "$nin"} =>
         LET texts == split(IF SetKey(arg) = "$nin" THEN substring(arg, 1) ELSE arg, <<",">>)
             items == out.val[SetKey(arg)].items
         IN  /\ out.val[SetKey(arg)].list
             /\ Len(items) = Len(texts)
             /\ \A i \in 1..Len(items) : Return(items[i]) = castValue(texts[i], legacyDates)
             /\ \A i \in 1..Len(items) : items[i].variant = items[1].variant

ReachesPattern(s) ==
  /\ PastNumberRule(s) /\ ~HasComparisonPrefix(s)
  /\ ~includes(s, <<".", ".">>) /\ ~includes(s, <<",">>)

RawOperand(key, s, n) == Return(Node(key, One(StringValue(substring(s, n)))))

\* C8: a string that reaches the pattern rule decodes, by its prefix "~*",
\* "!~*", "~" or "!~", to ILike, NotILike, Like or NotLike of the raw text
\* after that whole prefix.
C8_PatternOperators ==
  (Done("decodeValue") /\ ReachesPattern(arg)) =>
    /\ startsWith(arg, <<"~", "*">>) => out = RawOperand("$ilike", arg, 2)
    /\ startsWith(arg, <<"!", "~", "*">>) => out = RawOperand("$nilike", arg, 3)
    /\ (startsWith(arg, <<"~">>) /\ ~startsWith(arg, <<"~", "*">>))
         => out = RawOperand("$like", arg, 1)
    /\ (startsWith(arg, <<"!", "~">>) /\ ~startsWith(arg, <<"!", "~", "*">>))
         => out = RawOperand("$nlike", arg, 2)

ReachesFallback(s) ==
  ReachesPattern(s) /\ ~startsWith(s, <<"~">>) /\ ~startsWith(s, <<"!", "~">>)

\* C9: a string that matched none of the earlier rules decodes to Neq of the
\* coerced text after "!" when it starts with "!", and to Eq of the coerced
\* text otherwise.
C9_FallbackCoerced ==
  (Done("decodeValue") /\ ReachesFallback(arg)) =>
    LET negated == startsWith(arg, <<"!">>)
        operand == castValue(IF negated THEN substring(arg, 1) ELSE arg, legacyDates)
    IN  operand.ok =>
          out = Return(Node(IF negated THEN "$ne" ELSE "$eq", One(operand.val)))

\* C10: coerce returns a value for every non-empty string: Boolean for
\* true/false and Null for null in any case, else Number for a numeric token
\* that is a safe integer or has a fraction and BigInteger for one beyond the
\* safe range, else Date for a date, else the String itself.
C10_CoerceTotalOrdered ==
  (Done("castValue") /\ arg # <<>>) =>
    /\ out.ok
    /\ LET lower == toLowerCase(arg)
       IN  IF lower \in {<<"t","r","u","e">>, <<"f","a","l","s","e">>}
           THEN out.val = BooleanValue(lower = <<"t","r","u","e">>)
           ELSE IF lower = <<"n","u","l","l">> THEN out.val = NullValue
           ELSE IF PlainNumber(arg)
           THEN out.val.variant =
                  IF isSafeInteger(Number(arg)) \/ Number(arg).frac # <<>>
                  THEN "Number" ELSE "BigInteger"
           ELSE IF isValidDate(arg, legacyDates) THEN out.val = DateValue(arg)
           ELSE out.val = StringValue(arg)

\* the elements of a castArray call, coerced one by one
CoercedElements == [i \in 1..Len(arg) |-> castValue(arg[i], legacyDates)]

\* C11: coerceArray coerces every element and returns the coerced list when
\* all elements have the same variant; when two elements coerce to different
\* variants (a Null and a Date, a Number and a BigInteger) it fails with the
\* type-mismatch error.
C11_MixedVariantsRejected ==
  (Done("castArray") /\ \A i \in 1..Len(arg) : CoercedElements[i].ok) =>
    IF \A i \in 1..Len(arg) : CoercedElements[i].val.variant = CoercedElements[1].val.variant
    THEN out = Return([i \in 1..Len(arg) |-> CoercedElements[i].val])
    ELSE out = Throw("Not an array of the same type")

\* the fields of a group text: the text inside the outer parentheses, cut
\* into fields at "|", each field a key and a value around its first "="
GroupFields(text) == parseQuery(replaceAll(cleanValue(text), "|", "&"))

GroupKeys == {[param |-> K_and, node |-> F_and], [param |-> K_not, node |-> F_not]}

\* C12: for a parameter and=(...) or not=(...), the filter holds under the
\* And or Not node the fields of the inner text, each parsed with the rules
\* of the top level (one string by decode, a repeated key by the array path).
C12_GroupChildren ==
  (Done("useDrizzleRestFilter") /\ out.ok) =>
    \A g \in GroupKeys :
      truthy(arg.query, g.param) =>
        /\ g.node \in DOMAIN out.val.filter
        /\ Return(out.val.filter[g.node])
             = decodeEntries(GroupFields(arg.query[g.param].vals[1]), legacyDates)

\* the number of children of a combinator node: the fields it holds
Children(node) == Cardinality(DOMAIN node)

\* C13: in every filter the parser returns, a Not node has exactly one child
\* and an And node has one or more children; this includes a not group of
\* two fields and the empty group and=().
C13_CombinatorArity ==
  (Done("useDrizzleRestFilter") /\ out.ok) =>
    /\ F_not \in DOMAIN out.val.filter => Children(out.val.filter[F_not]) = 1
    /\ F_and \in DOMAIN out.val.filter => Children(out.val.filter[F_and]) >= 1

\* the text of a parseOrderQueryString call, empty when the value is absent
OrderText == IF arg.queryString.some THEN arg.queryString.v.vals[1] ELSE <<>>

OrderParts == split(OrderText, <<",">>)

\* a token is a field of the allow-list with an optional leading "-"
TokenAllowed(token, fields) ==
  \/ token \in Range(fields)
  \/ Len(token) > 0 /\ token[1] = "-" /\ Tail(token) \in Range(fields)

\* C14: for a non-empty sort string parseOrdering fails when a token is
\* malformed or names a field outside the allow-list, and otherwise returns,
\* in token order, one (field, direction) pair per token, Desc exactly for a
\* token with a leading "-".
C14_OrderingPerToken ==
  (Done("parseOrderQueryString") /\ OrderText # <<>>) =>
    IF \A i \in 1..Len(OrderParts) : TokenAllowed(OrderParts[i], arg.validFields)
    THEN out = Return(Some([i \in 1..Len(OrderParts) |-> orderPair(OrderParts[i])]))
    ELSE ~out.ok

\* C15: parseOrdering of the empty string, or of an absent value, returns
\* none, not an ordering with an entry for the empty field name.
C15_EmptyOrderingNone ==
  (Done("parseOrderQueryString") /\ OrderText = <<>>) => out = Return(None)

\* a list request that the built-in implementation serves
ListCall == op = "list" /\ ~arg.options.handler

\* the ordering of a list request as stated: the request token against the
\* orderable allow-list or else the column set, else the default ordering
\* against the column set, else none
StatedOrdering(options, query) ==
  IF truthy(query, K_o)
  THEN parseOrderQueryString(Some(query[K_o]),
                             IF options.orderFields.some THEN options.orderFields.v
                             ELSE columnNames)
  ELSE IF options.defaultOrdering.some /\ options.defaultOrdering.v # <<>>
  THEN parseOrderQueryString(Some(Str(options.defaultOrdering.v)), columnNames)
  ELSE Return(None)

\* C16: in list the request-level order token, when present, determines the
\* ordering, validated against the orderable allow-list or, with no allow-list
\* configured, against the full column set; the default ordering applies only
\* when there is no request token; with neither the query has no ordering.
C16_RequestOrderingFirst ==
  ListCall =>
    IF StatedOrdering(arg.options, arg.query).ok
    THEN plan.some /\ plan.v.orderBy = StatedOrdering(arg.options, arg.query).val
    ELSE pc = "done" /\ ~plan.some /\ out = StatedOrdering(arg.options, arg.query)

\* pagination as stated: forced, or automatic with a page parameter supplied
StatedPaginate(options, query) ==
  \/ options.canPaginate = "true"
  \/ options.canPaginate = "auto" /\ K_page \in DOMAIN query

StatedPageSize(options) == IF options.pageSize.some THEN options.pageSize.v ELSE DefaultPageSize

\* the store has answered the query of list with rows (it did not fail)
Answered == pc = "done" /\ plan.some /\ out # Throw("DatabaseError")

\* C17: a list query is paginated exactly when the mode is forced, or is
\* automatic and the request has a page parameter; a paginated query has
\* limit = pageSize and its response is the envelope {page, pageSize, count,
\* pageCount, results}; an unpaginated query has no limit and no offset and its
\* response is the plain sequence of rows.
C17_PaginationDecision ==
  (ListCall /\ plan.some) =>
    /\ plan.v.paginate = StatedPaginate(arg.options, arg.query)
    /\ IF StatedPaginate(arg.options, arg.query)
       THEN /\ plan.v.limit = Some(StatedPageSize(arg.options))
            /\ Answered =>
                 /\ out.ok
                 /\ out.val.paginated
                 /\ out.val.pageSize = StatedPageSize(arg.options)
       ELSE /\ plan.v.limit = None
            /\ plan.v.offset = None
            /\ Answered => out.ok /\ ~out.val.paginated

\* the effective page as stated: the page parameter when it is a positive
\* integer, 1 when it is absent, empty, zero or negative
StatedPage(query) ==
  LET n == IF truthy(query, K_page) THEN numberOf(query[K_page]) ELSE NumberLiteral(<<"1">>)
  IN  IF isNaN(n) \/ n.frac # <<>> \/ n.neg \/ n.int = <<"0">> THEN 1 ELSE digitsToInt(n.int)

\* C18: in every paginated list request the effective page is an integer
\* >= 1 (1 when the page parameter is absent, 0 or negative) and the offset of
\* the query is (page - 1) * pageSize, hence >= 0.
C18_OffsetFromPage ==
  (ListCall /\ plan.some /\ plan.v.paginate) =>
    /\ plan.v.offset = Some((StatedPage(arg.query) - 1) * plan.v.pageSize)
    /\ plan.v.offset.v >= 0

\* C19: every paginated list request that the store answers succeeds with
\* pageCount = ceil(count / pageSize); when the query returns zero rows it
\* succeeds with count = 0, pageCount = 0 and no results.
C19_PageCount ==
  (ListCall /\ Answered /\ plan.v.paginate) =>
    /\ out.ok
    /\ out.val.pageCount * plan.v.pageSize >= out.val.count
    /\ (out.val.pageCount - 1) * plan.v.pageSize < out.val.count
    /\ out.val.results = 0 => out.val.count = 0 /\ out.val.pageCount = 0

\* a keyed operation whose statement the store has answered
KeyedAnswered ==
  /\ op \in {"retrieve", "update", "destroy"}
  /\ Answered

\* C20: a keyed operation (retrieve, update, destroy) whose statement the
\* store answered returns the NotFound error when no row matched, and not a
\* schema-validation error or an undefined value; otherwise retrieve returns
\* the matching row and destroy returns the value of the deleted key.
C20_KeyedNotFound ==
  KeyedAnswered =>
    \/ out = Throw("NotFound")
    \/ /\ op \in {"retrieve", "update"}
       /\ out.ok /\ out.val.some
       /\ out.val.v[plan.v.key] = plan.v.value
    \/ /\ op = "destroy"
       /\ out = Return(Some([deletedId |-> plan.v.value]))

\* the positions of the calls with a given name
CallsNamed(name) == {i \in 1..Len(calls) : calls[i].call = name}

\* an update request that the built-in implementation serves
UpdateCall == op = "update" /\ ~arg.handler

\* C21: update validates the body against the update schema (that of the
\* call when one is passed) before it persists anything, a body that fails
\* validation causes no write, and a successful update returns the updated
\* row validated against the retrieve schema of the resource.
C21_UpdateSchemas ==
  UpdateCall =>
    /\ \A i \in CallsNamed("update") :
         /\ arg.body.valid
         /\ \E j \in 1..(i - 1) : calls[j] = Call("parse", schemaOf(arg.schema, "update"))
    /\ ~arg.body.valid => out = Throw("ZodError") /\ ~plan.some
    /\ (pc = "done" /\ out.ok) =>
         /\ calls[Len(calls)] = Call("parse", "retrieve")
         /\ CallsNamed("update") = {Len(calls) - 1}
         /\ out.val = Some(spread(Node(plan.v.key, plan.v.value), arg.body.values))

C21_Witness ==
  /\ UpdateCall /\ pc = "done" /\ out.ok
  /\ arg.schema
  /\ arg.body.values # EmptyObject
  /\ calls[Len(calls)] = Call("parse", "retrieve")

IsPrefix(a, b) == Len(a) <= Len(b) /\ SubSeq(b, 1, Len(a)) = a

\* a create request that the built-in implementation serves
CreateCall == op = "create" /\ ~arg.handler

\* the steps of create, in order
CreateSteps ==
  <<Call("readBody", "event"), Call("parse", schemaOf(arg.schema, "create")),
    Call("insert", "create"), Call("parse", schemaOf(arg.schema, "create"))>>

\* C22: at every point of a run of create the steps taken so far are an
\* initial part of: validate the body against the create schema, persist,
\* re-validate the persisted row against the create schema; a create that
\* returns a row has taken them all; when the body fails validation the
\* request is rejected with the validation error and no insert is issued.
C22_CreateOrder ==
  CreateCall =>
    /\ IsPrefix(calls, CreateSteps)
    /\ ~arg.body.valid =>
         /\ pc = "done" /\ out = Throw("ZodError") /\ ~plan.some
         /\ CallsNamed("insert") = {}
    /\ (pc = "done" /\ out.ok) => calls = CreateSteps /\ out.val = Some(arg.body.values)

C22_Witness ==
  /\ CreateCall /\ pc = "done" /\ out.ok
  /\ calls = CreateSteps
  /\ arg.body.values # EmptyObject

Operations == {"list", "create", "retrieve", "update", "destroy", "search"}

\* whether the resource has a handler for the operation that was invoked
HandlerConfigured == IF op = "list" THEN arg.options.handler ELSE arg.handler

\* C23: for each of the six operations, when a handler is configured the
\* operation makes one call, to that handler with the request context, and
\* returns its result: it reads no query, route parameter or body, validates
\* nothing and sends nothing to the store; the built-in steps run only when
\* no handler is configured.
C23_HandlerReplaces ==
  op \in Operations =>
    IF HandlerConfigured
    THEN /\ pc = "done"
         /\ calls = <<Call("handler", op)>>
         /\ out = Return([handler |-> TRUE])
         /\ ~plan.some
    ELSE /\ CallsNamed("handler") = {}
         /\ calls # <<>>

C23_Witness ==
  /\ op = "update"
  /\ arg.handler
  /\ ~arg.body.valid
  /\ calls = <<Call("handler", "update")>>

\* the key column of an operation as stated: the key of the operation, else
\* the configured default or the one configured column, else the primary key
\* detected on the table
StatedKey(which) ==
  IF arg.primaryKey.some /\ arg.primaryKey.v.object /\ arg.primaryKey.v[which].some
  THEN arg.primaryKey.v[which]
  ELSE IF arg.primaryKey.some /\ arg.primaryKey.v.object THEN Some(arg.primaryKey.v.default)
  ELSE IF arg.primaryKey.some THEN Some(arg.primaryKey.v.column)
  ELSE IF arg.primaryKeys # <<>> THEN Some(arg.primaryKeys[1])
  ELSE None

KeyedOperations == {"retrieve", "update", "delete"}

\* C24: construction resolves for each of retrieve, update and delete the
\* key of the operation, else the configured default (or the one configured
\* key), else the primary key detected on the table; when an operation has no
\* key, construction fails with an error that names exactly the unresolved
\* operations and returns no resource.
C24_PrimaryKeyResolution ==
  Done("useAPIView") =>
    IF \A which \in KeyedOperations : StatedKey(which).some
    THEN /\ out.ok
         /\ \A which \in KeyedOperations : out.val.primaryKey[which] = StatedKey(which)
    ELSE /\ ~out.ok
         /\ Range(out.err.keys) = {which \in KeyedOperations : ~StatedKey(which).some}

C24_Witness ==
  /\ Done("useAPIView")
  /\ ~arg.primaryKey.some
  /\ arg.primaryKeys = <<>>
  /\ out = Throw([message |-> "primaryKey is undefined",
                  keys |-> <<"retrieve", "update", "delete">>])

\* the routes that register added for a handler name
RoutesOf(name) == {i \in 1..Len(out.val) : out.val[i].handler = name}

KeyOfOperation == [retrieve |-> "retrieve", update |-> "update", destroy |-> "delete"]

\* the routes of the custom actions: those after the routes of the operations
ActionRoutes ==
  SubSeq(out.val, Len(out.val) - (IF arg.actions.some THEN Len(arg.actions.v) ELSE 0) + 1,
         Len(out.val))

\* C25: register adds exactly one route for each selected operation (all six
\* for "all") and none for an operation that is not selected; the routes of
\* retrieve, update and destroy have the resolved key column of that operation
\* as path parameter; it adds one route per custom action, with verb GET when
\* the action gives none, and with an identifier segment at the end of the
\* action path exactly when the detail flag of the action is true.
C25_RegisterRoutes ==
  Done("register") =>
    /\ \A o \in Operations :
         Cardinality(RoutesOf(o)) = IF arg.handlers.all \/ o \in arg.handlers.names THEN 1 ELSE 0
    /\ \A o \in DOMAIN KeyOfOperation : \A i \in RoutesOf(o) :
         out.val[i].path = BasePath \o <<Param(arg.keys[KeyOfOperation[o]])>>
    /\ Len(out.val) = Cardinality(UNION {RoutesOf(o) : o \in Operations})
                        + (IF arg.actions.some THEN Len(arg.actions.v) ELSE 0)
    /\ arg.actions.some =>
         \A i \in 1..Len(arg.actions.v) :
           LET a == arg.actions.v[i]
               r == ActionRoutes[i]
           IN  /\ r.handler = a.name
               /\ r.method = (IF a.method.some THEN a.method.v ELSE "get")
               /\ r.path[Len(r.path)].param = (a.detail = Some(TRUE))
               /\ SubSeq(r.path, 1, Len(r.path) - (IF a.detail = Some(TRUE) THEN 1 ELSE 0))
                    = (IF a.absolute THEN <<>> ELSE BasePath) \o <<Seg(a.path)>>

C25_Witness ==
  /\ Done("register")
  /\ arg.handlers = [all |-> FALSE, names |-> {"retrieve", "destroy"}]
  /\ arg.keys.retrieve = F_name
  /\ arg.actions.some /\ Len(arg.actions.v) = 2
  /\ arg.actions.v[1].detail = None /\ arg.actions.v[2].detail = Some(TRUE)
  /\ Len(out.val) = 4

\* the positions of the calls to the store
StoreCalls == {i \in 1..Len(calls) : calls[i].call \in {"select", "insert", "update", "delete"}}

\* an invocation of a CRUD operation that the built-in implementation serves
BuiltInCrud ==
  /\ op \in {"list", "create", "retrieve", "update", "destroy"}
  /\ ~HandlerConfigured

\* C26 (as stated): every invocation of a built-in CRUD operation issues
\* exactly one data-access call.
C26_ExactlyOneCall ==
  (BuiltInCrud /\ pc = "done") => Cardinality(StoreCalls) = 1

\* C26 (amended): an invocation of a built-in CRUD operation issues at most
\* one data-access call: none when it is rejected before the store is reached
\* (body validation, ordering validation), exactly one otherwise; a paginated
\* list asks for the count in that same call; when the call fails its error is
\* the outcome and nothing is called after it.
C26_OneCallNoRetry ==
  BuiltInCrud =>
    /\ Cardinality(StoreCalls) = (IF plan.some THEN 1 ELSE 0)
    /\ ~plan.some => pc = "done" /\ out = Throw("ZodError")
    /\ (op = "list" /\ plan.some) => plan.v.count = plan.v.paginate
    /\ (pc = "done" /\ out = Throw("DatabaseError")) => StoreCalls = {Len(calls)}

C26_Witness ==
  /\ BuiltInCrud /\ pc = "done"
  /\ op = "list" /\ plan.some /\ plan.v.paginate
  /\ out = Throw("DatabaseError")
  /\ StoreCalls = {Len(calls)}

\* the statement that list builds for a query on a resource with the options
\* given: the list schema's columns, and the count only when it paginates
StatedSelect(options, query) ==
  selectPlan(listPlan(options, query).val,
             ListSchemaFields \cup (IF StatedPaginate(options, query) THEN {K_count} ELSE {}))

\* every request in flight has the statement that its own query gives on the
\* resource as constructed
OwnPlans ==
  /\ binding = Binding(binding.options)
  /\ \A r \in Requests :
       pc[r] # "idle" => plan[r] = Some(StatedSelect(binding.options, arg[r]))

\* C27: under any interleaving of the requests on one resource no step of a
\* request modifies the binding built at construction, the paginated list
\* that adds a count column to its projection included, and the statement of
\* each request is the one its own query gives, whatever the other requests.
C27_BindingReadOnly == []OwnPlans /\ [][binding' = binding]_vars

C27_Witness ==
  /\ pc[1] = "awaiting" /\ pc[2] = "awaiting"
  /\ K_count \in plan[1].v.columns
  /\ K_count \notin plan[2].v.columns
  /\ binding.listColumns = ListSchemaFields

\* the predicate that occurrence i of a handleArray call decodes to
DecodedAt(i) == decodeValue(arg[i], legacyDates)

\* how often the predicate d occurs in the node that the array path returned:
\* as an entry of the node, or as a child of its And group
OccurrencesIn(node, d) ==
  (IF DOMAIN d \subseteq DOMAIN node /\ \A k \in DOMAIN d : node[k] = d[k] THEN 1 ELSE 0)
    + (IF "$and" \in DOMAIN node
       THEN Cardinality({i \in 1..Len(node["$and"].children) : node["$and"].children[i] = d})
       ELSE 0)

\* C28: for a key that occurs N >= 1 times, all occurrences decoding, the
\* node that the array path returns holds each decoded predicate as often as
\* it was given: a later occurrence drops or overwrites no earlier predicate
\* and no earlier And group.
C28_AllOccurrencesKept ==
  (Done("handleArray") /\ \A i \in 1..Len(arg) : DecodedAt(i).ok) =>
    /\ out.ok
    /\ \A i \in 1..Len(arg) :
         OccurrencesIn(out.val, DecodedAt(i).val)
           = Cardinality({j \in 1..Len(arg) : DecodedAt(j) = DecodedAt(i)})

\* C29: a list request without pagination whose query the store answers,
\* with zero rows too, succeeds and returns the sequence of the rows (the
\* empty sequence for zero rows); it raises no error.
C29_EmptyListSucceeds ==
  (ListCall /\ Answered /\ ~plan.v.paginate) =>
    /\ out.ok
    /\ ~out.val.paginated
    /\ out.val.results \in 0..MaxRows

ReturnedNodes == IF arg.options.useForm.some /\ arg.options.useForm.v
                 THEN out.val.children ELSE out.val

Excluded(column) ==
  /\ arg.options.exclude.some
  /\ \E i \in 1..Len(arg.options.exclude.v) :
       arg.options.exclude.v[i] = column.name

KeptColumns == SelectSeq(arg.table.columns, LAMBDA c : ~Excluded(c))

NodeOf(column) == IF arg.typed THEN inputOf(column) ELSE mapColumnToSchema(column)

IncludedNodes == IF arg.options.include.some THEN arg.options.include.v ELSE <<>>

\* C30: when createFormKitSchema(table, options) returns, the schema holds
\* the node of every column whose name is not in options.exclude, in column
\* order, followed by the nodes of options.include; a column listed in
\* options.exclude has no node.
C30_FormSchemaNodes ==
  (Done("createFormKitSchema") /\ out.ok) =>
    ReturnedNodes = [i \in 1..Len(KeptColumns) |-> NodeOf(KeptColumns[i])]
                      \o IncludedNodes

====
